---- MODULE Spec2Model ----
(***************************************************************************)
(* Model of scripts/analyze-benchmarks.py (BenchmarkAnalyzer and its main) *)
(* and of the loader of scripts/visualize-benchmarks.py.                   *)
(*                                                                         *)
(* A criterion directory is a finite tree: a function from the relative    *)
(* path of each file (a sequence of path segments) to the file's content.  *)
(* Numbers are integers; a percent change is kept as the exact quotient    *)
(* (a reduced fraction n/d with d > 0), so equality with the threshold and *)
(* the sign of a change are decided exactly.                               *)
(***************************************************************************)
EXTENDS Integers, Sequences, FiniteSets, TLC

(***************************************************************************)
(* Bounds of the model.                                                    *)
(***************************************************************************)
\* Most estimates files over the baseline and current directories together.
MaxEntries == 3
\* Largest point estimate written in a fragment.
MaxMean == 3
\* Most estimates files under the directory of a single loader call.
MaxFiles == 2

\* Benchmark directory names, and the code points Python's str order uses.
BenchNames == {"a", "ab", "b"}
CodePoints == [a |-> <<97>>, ab |-> <<97, 98>>, b |-> <<98>>]

\* Values of --threshold (any float is accepted; 5.0 is the default).
Thresholds == <<50, 0, 0 - 50>>

(***************************************************************************)
(* Exact fractions.                                                        *)
(***************************************************************************)
Abs(i) == IF i < 0 THEN 0 - i ELSE i

RECURSIVE GCD(_, _)
GCD(i, j) == IF j = 0 THEN i ELSE GCD(j, i % j)

\* The fraction num/den (den # 0), reduced, with a positive denominator.
Frac(num, den) ==
    LET g == GCD(Abs(num), Abs(den))
        s == IF den < 0 THEN 0 - 1 ELSE 1
    IN  [n |-> (s * num) \div g, d |-> (s * den) \div g]

FracOfInt(i) == [n |-> i, d |-> 1]
FracLess(x, y) == x.n * y.d < y.n * x.d
FracLeq(x, y) == x.n * y.d <= y.n * x.d
FracAbs(x) == [n |-> Abs(x.n), d |-> x.d]
Zero == FracOfInt(0)

(***************************************************************************)
(* File contents.  An estimates file is malformed JSON, JSON whose top     *)
(* level is not an object, or an object whose estimate keys are each       *)
(* absent, a non-object, or an object with or without a point_estimate.    *)
(***************************************************************************)
Absent == [t |-> "absent"]
Scalar == [t |-> "scalar"]
EmptyObject == [t |-> "empty"]
Estimate(v) == [t |-> "object", pe |-> v]

Malformed == [kind |-> "malformed"]
NonObject == [kind |-> "nonobject"]
Fragment(m, s, md) == [kind |-> "object", mean |-> m, std_dev |-> s, median |-> md]

ESTIMATES == "estimates.json"
BASE == "base"

(***************************************************************************)
(* Parsing one fragment: json.load, then the three chained .get calls.     *)
(***************************************************************************)
\* data.get(key, {}).get("point_estimate", 0)
PointEstimate(field) ==
    CASE field.t = "absent" -> [exc |-> "none", v |-> 0]
      [] field.t = "empty"  -> [exc |-> "none", v |-> 0]
      [] field.t = "object" -> [exc |-> "none", v |-> field.pe]
      [] OTHER              -> [exc |-> "AttributeError", v |-> 0]

ParseFragment(content) ==
    CASE content.kind = "malformed" -> [exc |-> "JSONDecodeError"]
      [] content.kind = "nonobject" -> [exc |-> "AttributeError"]
      [] OTHER ->
           LET m  == PointEstimate(content.mean)
               s  == PointEstimate(content.std_dev)
               md == PointEstimate(content.median)
           IN  IF m.exc # "none" THEN [exc |-> m.exc]
               ELSE IF s.exc # "none" THEN [exc |-> s.exc]
               ELSE IF md.exc # "none" THEN [exc |-> md.exc]
               ELSE [exc |-> "none", mean |-> m.v, std_dev |-> s.v, median |-> md.v]

\* except (json.JSONDecodeError, KeyError)
AnalyzerCaught == {"JSONDecodeError", "KeyError"}

BenchmarkResult(name, p) ==
    [name |-> name, mean |-> p.mean, std_dev |-> p.std_dev, median |-> p.median,
     unit |-> "ns"]

(***************************************************************************)
(* BenchmarkAnalyzer.load_criterion_results                                *)
(***************************************************************************)
\* The entries criterion_dir.iterdir() yields, and which are directories.
TopEntries(tree) == {p[1] : p \in DOMAIN tree}
IsDir(tree, e) == \E p \in DOMAIN tree : Len(p) >= 2 /\ p[1] = e

\* Every order iterdir() may yield the entries in.
Orderings(S) ==
    {o \in [1..Cardinality(S) -> S] : \A i, j \in 1..Cardinality(S) : o[i] = o[j] => i = j}

\* bench_dir/base/estimates.json, else bench_dir/estimates.json
EstimatesFile(tree, d) ==
    IF <<d, BASE, ESTIMATES>> \in DOMAIN tree
    THEN <<d, BASE, ESTIMATES>> ELSE <<d, ESTIMATES>>

NoResults == [x \in {} |-> 0]
LoadStart == [results |-> NoResults, warnings |-> {}, raised |-> "none"]

\* The loop body for one entry of iterdir().
AnalyzerLoadEntry(tree, d, acc) ==
    IF ~IsDir(tree, d) THEN acc
    ELSE LET f == EstimatesFile(tree, d)
         IN  IF f \notin DOMAIN tree THEN acc
             ELSE LET p == ParseFragment(tree[f])
                  IN  IF p.exc = "none"
                      THEN [acc EXCEPT !.results = (d :> BenchmarkResult(d, p)) @@ @]
                      ELSE IF p.exc \in AnalyzerCaught
                      THEN [acc EXCEPT !.warnings = @ \cup {f}]
                      ELSE [acc EXCEPT !.raised = p.exc]

RECURSIVE AnalyzerLoadLoop(_, _, _, _)
AnalyzerLoadLoop(tree, order, i, acc) ==
    IF i > Len(order) \/ acc.raised # "none" THEN acc
    ELSE AnalyzerLoadLoop(tree, order, i + 1, AnalyzerLoadEntry(tree, order[i], acc))

\* The outcome of load_criterion_results when the directory lists in `order`.
AnalyzerLoad(exists, tree, order) ==
    IF ~exists THEN LoadStart
    ELSE AnalyzerLoadLoop(tree, order, 1, LoadStart)

(***************************************************************************)
(* BenchmarkAnalyzer.compare_results                                       *)
(***************************************************************************)
None == [none |-> TRUE]

RECURSIVE SeqLess(_, _)
SeqLess(s, t) ==
    IF s = <<>> THEN t # <<>>
    ELSE IF t = <<>> THEN FALSE
    ELSE IF Head(s) # Head(t) THEN Head(s) < Head(t)
    ELSE SeqLess(Tail(s), Tail(t))

\* Python's order of str: by code point, a proper prefix first.
StrLess(x, y) == SeqLess(CodePoints[x], CodePoints[y])

RECURSIVE SortedDescending(_)
SortedDescending(S) ==
    IF S = {} THEN <<>>
    ELSE LET m == CHOOSE x \in S : \A y \in S \ {x} : StrLess(y, x)
         IN  <<m>> \o SortedDescending(S \ {m})

\* sorted(S)
RECURSIVE Sorted(_)
Sorted(S) ==
    IF S = {} THEN <<>>
    ELSE LET m == CHOOSE x \in S : \A y \in S \ {x} : StrLess(x, y)
         IN  <<m>> \o Sorted(S \ {m})

PercentChangeUnscaled(b, c) == Frac(c - b, b)
PercentChangeReversed(b, c) == Frac((b - c) * 100, b)

\* ((current.mean - baseline.mean) / baseline.mean) * 100, baseline.mean # 0
PercentChange(b, c) == Frac((c - b) * 100, b)

ClassifyInclusive(change, thr) ==
    IF FracLeq(FracAbs(change), FracOfInt(thr)) THEN "stable"
    ELSE IF FracLess(Zero, change) THEN "regression"
    ELSE "improvement"

\* The if / elif / else over abs(change) and the sign of change.
Classify(change, thr) ==
    IF FracLess(FracAbs(change), FracOfInt(thr)) THEN "stable"
    ELSE IF FracLess(Zero, change) THEN "regression"
    ELSE "improvement"

Lookup(results, name) == IF name \in DOMAIN results THEN results[name] ELSE None

CompareOneSwapped(name, baseline, current, thr, acc) ==
    LET b == Lookup(baseline, name)
        c == Lookup(current, name)
    IN  IF b # None /\ c # None
        THEN IF b.mean = 0
             THEN [acc EXCEPT !.raised = "ZeroDivisionError"]
             ELSE LET change == PercentChange(b.mean, c.mean)
                  IN  [acc EXCEPT !.comparisons = Append(@,
                         [name |-> name, baseline |-> b, current |-> c,
                          change_percent |-> change,
                          change_type |-> Classify(change, thr)])]
        ELSE IF b # None
        THEN [acc EXCEPT !.comparisons = Append(@,
                 [name |-> name, baseline |-> None, current |-> c,
                  change_percent |-> Zero, change_type |-> "new"])]
        ELSE [acc EXCEPT !.comparisons = Append(@,
                 [name |-> name, baseline |-> b, current |-> None,
                  change_percent |-> Zero, change_type |-> "missing"])]

\* The loop body for one name; a zero baseline mean raises ZeroDivisionError.
CompareOne(name, baseline, current, thr, acc) ==
    LET b == Lookup(baseline, name)
        c == Lookup(current, name)
    IN  IF b # None /\ c # None
        THEN IF b.mean = 0
             THEN [acc EXCEPT !.raised = "ZeroDivisionError"]
             ELSE LET change == PercentChange(b.mean, c.mean)
                  IN  [acc EXCEPT !.comparisons = Append(@,
                         [name |-> name, baseline |-> b, current |-> c,
                          change_percent |-> change,
                          change_type |-> Classify(change, thr)])]
        ELSE IF c # None
        THEN [acc EXCEPT !.comparisons = Append(@,
                 [name |-> name, baseline |-> None, current |-> c,
                  change_percent |-> Zero, change_type |-> "new"])]
        ELSE [acc EXCEPT !.comparisons = Append(@,
                 [name |-> name, baseline |-> b, current |-> None,
                  change_percent |-> Zero, change_type |-> "missing"])]

RECURSIVE CompareLoop(_, _, _, _, _, _)
CompareLoop(names, i, baseline, current, thr, acc) ==
    IF i > Len(names) \/ acc.raised # "none" THEN acc
    ELSE CompareLoop(names, i + 1, baseline, current, thr,
                     CompareOne(names[i], baseline, current, thr, acc))

AllBenchmarks(baseline, current) == DOMAIN baseline \cup DOMAIN current

CompareResults(baseline, current, thr) ==
    CompareLoop(Sorted(AllBenchmarks(baseline, current)), 1, baseline, current, thr,
                [comparisons |-> <<>>, raised |-> "none"])

(***************************************************************************)
(* BenchmarkAnalyzer.print_report                                          *)
(***************************************************************************)
OfType(comps, ty) == {i \in 1..Len(comps) : comps[i].change_type = ty}

\* The summary block that is printed, and the value that is returned.
PrintReport(comps) ==
    [total        |-> Len(comps),
     regressions  |-> Cardinality(OfType(comps, "regression")),
     improvements |-> Cardinality(OfType(comps, "improvement")),
     stable       |-> Cardinality(OfType(comps, "stable")),
     new          |-> Cardinality(OfType(comps, "new")),
     missing      |-> Cardinality(OfType(comps, "missing")),
     returns      |-> Cardinality(OfType(comps, "regression")) > 0]

NoReport == [total |-> 0 - 1]

(***************************************************************************)
(* BenchmarkVisualizer.load_criterion_results                              *)
(***************************************************************************)
\* except (json.JSONDecodeError, KeyError, ValueError)
VisualizerCaught == {"JSONDecodeError", "KeyError", "ValueError"}

BenchmarkData(name, now, p) ==
    [name |-> name, timestamp |-> now, mean |-> p.mean, std_dev |-> p.std_dev,
     median |-> p.median, unit |-> "ns"]

\* criterion_dir.rglob("estimates.json")
EstimatesFiles(tree) == {f \in DOMAIN tree : f[Len(f)] = ESTIMATES}

\* rel_path.parts[:-2]
NameParts(f) == IF Len(f) <= 2 THEN <<>> ELSE SubSeq(f, 1, Len(f) - 2)

\* '/'.join(parts)
RECURSIVE Join(_)
Join(parts) ==
    IF Len(parts) = 1 THEN parts[1]
    ELSE parts[1] \o "/" \o Join(Tail(parts))

Segments(path) == {path[i] : i \in 1..Len(path)}

\* The loop body for one file; `root` holds the parts of criterion_dir.
VisualizerLoadFile(root, tree, f, now, acc) ==
    LET p == ParseFragment(tree[f])
    IN  IF p.exc \in VisualizerCaught
        THEN [acc EXCEPT !.warnings = @ \cup {f}]
        ELSE IF p.exc # "none"
        THEN [acc EXCEPT !.raised = p.exc]
        ELSE IF NameParts(f) = <<>> THEN acc
        ELSE IF BASE \in Segments(root \o f)
        THEN [acc EXCEPT !.results =
                 (Join(NameParts(f)) :> BenchmarkData(Join(NameParts(f)), now, p)) @@ @]
        ELSE acc

RECURSIVE VisualizerLoadLoop(_, _, _, _, _, _)
VisualizerLoadLoop(root, tree, order, i, now, acc) ==
    IF i > Len(order) \/ acc.raised # "none" THEN acc
    ELSE VisualizerLoadLoop(root, tree, order, i + 1, now,
                            VisualizerLoadFile(root, tree, order[i], now, acc))

\* The outcome of load_criterion_results when rglob lists the files in `order`.
VisualizerLoad(exists, root, tree, order, now) ==
    IF ~exists THEN LoadStart
    ELSE VisualizerLoadLoop(root, tree, order, 1, now, LoadStart)

(***************************************************************************)
(* format_time, in both scripts.  The argument is ns + frac/1000           *)
(* nanoseconds with frac in 0..999.                                        *)
(***************************************************************************)
\* The unit the second branch writes: analyzer line 177, visualizer line 103.
MicroUnit == [analyzer |-> "Âµs", visualizer |-> "µs"]

\* f"{x:.2f}" for x = h/100
Fixed2(h) ==
    (IF h < 0 THEN "-" ELSE "") \o ToString(Abs(h) \div 100) \o "."
        \o ToString((Abs(h) % 100) \div 10) \o ToString(Abs(h) % 10)

\* (ns + frac/1000) / scale in hundredths, rounded to the nearest.  The
\* formatter rounds the binary double of the quotient, so on a decimal tie
\* either neighbour can come out: `up` is the side taken then.
Hundredths(ns, frac, scale, up) ==
    LET d    == scale \div 100
        q    == IF scale = 1 THEN ns * 100 + frac \div 10 ELSE ns \div d
        more == IF scale = 1 THEN frac % 10 > 5
                ELSE ns % d > d \div 2 \/ (ns % d = d \div 2 /\ frac > 0)
        tie  == IF scale = 1 THEN frac % 10 = 5
                ELSE ns % d = d \div 2 /\ frac = 0
    IN  IF more \/ (tie /\ up) THEN q + 1 ELSE q

FormatTime(script, ns, frac, up) ==
    IF ns < 1000
    THEN Fixed2(Hundredths(ns, frac, 1, up)) \o " ns"
    ELSE IF ns < 1000000
    THEN Fixed2(Hundredths(ns, frac, 1000, up)) \o " " \o MicroUnit[script]
    ELSE IF ns < 1000000000
    THEN Fixed2(Hundredths(ns, frac, 1000000, up)) \o " ms"
    ELSE Fixed2(Hundredths(ns, frac, 1000000000, up)) \o " s"

(***************************************************************************)
(* The visualizer's reports.  A report is held as the values its template  *)
(* is filled with; the markup around them is left out.                     *)
(***************************************************************************)
INDEX_HTML == "index.html"
REPORT_MD == "report.md"
LATEST_JSON == "latest.json"
HISTORY_JSONL == "history.jsonl"

\* Places of an estimates file under the criterion directory of a run.
VisPaths == {<<"a", BASE, ESTIMATES>>, <<"g", "b", BASE, ESTIMATES>>}

\* name.split('/'), over the names the files of VisPaths derive
Split(name) == CHOOSE parts \in {NameParts(f) : f \in VisPaths} : Join(parts) = name

\* name.split('/')[0] if '/' in name else 'other'
Category(name) == IF Len(Split(name)) > 1 THEN Split(name)[1] ELSE "other"

\* name.split('/')[-1] if '/' in name else name
DisplayName(name) == Split(name)[Len(Split(name))]

Min(S) == CHOOSE x \in S : \A y \in S : x <= y
Max(S) == CHOOSE x \in S : \A y \in S : y <= x

\* self.format_time(v) for a whole number of nanoseconds off any rounding tie
Time(v) == FormatTime("visualizer", v, 0, FALSE)

\* One row per benchmark: display name and the three formatted times.
Rows(results) ==
    {[category |-> Category(n), display_name |-> DisplayName(n),
      mean |-> Time(results[n].mean), median |-> Time(results[n].median),
      std_dev |-> Time(results[n].std_dev)] : n \in DOMAIN results}

GenerateHtmlReport(results, now) ==
    LET all_times == {results[n].mean : n \in DOMAIN results}
    IN  [timestamp |-> now,
         total_benchmarks |-> Cardinality(DOMAIN results),
         total_categories |-> Cardinality({Category(n) : n \in DOMAIN results}),
         fastest_time |-> IF all_times = {} THEN "N/A" ELSE Time(Min(all_times)),
         slowest_time |-> IF all_times = {} THEN "N/A" ELSE Time(Max(all_times)),
         cards |-> Rows(results)]

GenerateMarkdownReport(results, now) ==
    [generated |-> now,
     total_benchmarks |-> Cardinality(DOMAIN results),
     categories |-> Cardinality({Category(n) : n \in DOMAIN results}),
     rows |-> Rows(results)]

\* with open(path, 'w') as f: f.write(content), at time `now`
WriteFile(files, name, now, content) ==
    (name :> [mtime |-> now, content |-> content]) @@ files

\* The text json.dump / json.dumps writes for a value: the value in a layout.
JsonText(data, layout) == [json |-> data, layout |-> layout]

\* The lines of history.jsonl, none when the file is absent.
HistoryLines(files) ==
    IF HISTORY_JSONL \in DOMAIN files THEN files[HISTORY_JSONL].content ELSE <<>>

Snapshot(results, now) ==
    [timestamp |-> now,
     benchmarks |-> [n \in DOMAIN results |->
                        [mean |-> results[n].mean, median |-> results[n].median,
                         std_dev |-> results[n].std_dev, unit |-> results[n].unit]]]

\* save_results_json with history.jsonl opened with 'w'.
SaveResultsJsonTruncating(files, results, now) ==
    WriteFile(WriteFile(files, LATEST_JSON, now, JsonText(Snapshot(results, now), "indent=2")),
              HISTORY_JSONL, now, <<JsonText(Snapshot(results, now), "one line")>>)

\* save_results_json: latest.json is rewritten, history.jsonl gets one line more
SaveResultsJson(files, results, now) ==
    WriteFile(WriteFile(files, LATEST_JSON, now, JsonText(Snapshot(results, now), "indent=2")),
              HISTORY_JSONL, now,
              Append(HistoryLines(files), JsonText(Snapshot(results, now), "one line")))

\* args.format in [kind, "all"], with every format taken as selected
SelectedAlways(format, kind) == TRUE

\* args.format in [kind, "all"]
Selected(format, kind) == format \in {kind, "all"}

\* --criterion-dir, as parts
VisRoot == <<"target", "criterion">>

\* One run of main at time `now` on the output directory (dirExists, files),
\* rglob listing the estimates files in `order`.
VisualizerMainRun(args, order, now, dirExists, files) ==
    IF ~args.exists
    THEN [exit |-> 1, loaded |-> NoResults, outExists |-> dirExists, outFiles |-> files]
    ELSE LET r == VisualizerLoad(TRUE, VisRoot, args.tree, order, now)
             h == IF Selected(args.format, "html")
                  THEN WriteFile(files, INDEX_HTML, now, GenerateHtmlReport(r.results, now))
                  ELSE files
             m == IF Selected(args.format, "markdown")
                  THEN WriteFile(h, REPORT_MD, now, GenerateMarkdownReport(r.results, now))
                  ELSE h
             j == IF Selected(args.format, "json")
                  THEN SaveResultsJson(m, r.results, now)
                  ELSE m
         IN  IF r.raised # "none" \/ r.results = NoResults
             THEN [exit |-> 1, loaded |-> NoResults, outExists |-> TRUE, outFiles |-> files]
             ELSE [exit |-> 0, loaded |-> r.results, outExists |-> TRUE, outFiles |-> j]

(***************************************************************************)
(* State.                                                                  *)
(***************************************************************************)
VARIABLES
    \* One run of the analyzer's main.
    baselineExists,  \* args.baseline.exists()
    baselineTree,    \* the files under args.baseline
    currentExists,   \* args.current.exists()
    currentTree,     \* the files under args.current
    threshold,       \* args.threshold
    pc,              \* position in main
    baseline,        \* main's baseline mapping
    current,         \* main's current mapping
    comparisons,     \* main's comparisons list
    report,          \* what print_report printed and returned
    stderr,          \* kinds of message written to the error stream
    exitCode,        \* the process's exit status; -1 while it runs
    \* One call of a loader on a criterion directory.
    ldLoader,        \* "analyzer" or "visualizer"
    ldExists,        \* criterion_dir.exists()
    ldRoot,          \* the parts of the criterion_dir path
    ldTree,          \* the files under criterion_dir
    ldOut,           \* the call's outcome
    ldPc,            \* "call" before the call, "done" after
    \* One call of compare_results on two benchmarks with one baseline mean.
    fnBase,          \* the baseline mean of both benchmarks
    fnCur,           \* the current mean of each benchmark
    fnThr,           \* the analyzer's threshold
    fnOut,           \* the call's outcome
    fnPc,            \* "call" before the call, "done" after
    \* One call of format_time in one of the two scripts.
    fmtScript,       \* "analyzer" or "visualizer"
    fmtNs,           \* the whole nanoseconds of the argument
    fmtFrac,         \* its fraction, in thousandths of a nanosecond
    fmtOut,          \* the string returned
    fmtPc,           \* "call" before the call, "done" after
    \* Runs of the visualizer's main, one after the other, on one output directory.
    visRuns,         \* the runs so far; the clock datetime.now() reads
    visArgs,         \* the latest run's arguments and criterion directory
    visLoaded,       \* the latest run's results mapping
    visExit,         \* the latest run's exit status
    outExists,       \* args.output exists
    outFiles         \* the files in args.output: when written, and what

mainVars == <<baselineExists, baselineTree, currentExists, currentTree, threshold, pc,
              baseline, current, comparisons, report, stderr, exitCode>>
loadVars == <<ldLoader, ldExists, ldRoot, ldTree, ldOut, ldPc>>
fnVars == <<fnBase, fnCur, fnThr, fnOut, fnPc>>
fmtVars == <<fmtScript, fmtNs, fmtFrac, fmtOut, fmtPc>>
visVars == <<visRuns, visArgs, visLoaded, visExit, outExists, outFiles>>
vars == <<mainVars, loadVars, fnVars, fmtVars, visVars>>

Running == 0 - 1

\* sys.exit(1) of the directory and no-results errors, and of a run with
\* regressions; sys.exit(0) of a run without.
ErrorExitCode == 1
RegressionExitCodeDistinct == 1 + 1
RegressionExitCode == 1
SuccessExitCode == 0
\* The interpreter's exit status after an uncaught exception.
UncaughtExitCode == 1

\* Point estimates a fragment may hold.
Means == 1..MaxMean

\* Fragments of the runs of main: the three estimates together.
MainContents ==
    {Malformed, NonObject, Fragment(Absent, Absent, Absent)}
        \cup {Fragment(Estimate(m), Estimate(0), Estimate(m)) : m \in Means}

BenchPath(n) == <<n, BASE, ESTIMATES>>

\* Trees with the files of `names`, each with any content of `contents`.
TreesOver(paths, contents) == [paths -> contents]

MainIdle ==
    /\ threshold = 0
    /\ baselineExists = FALSE
    /\ currentExists = FALSE
    /\ baselineTree = <<>>
    /\ currentTree = <<>>
    /\ pc = "idle"
    /\ baseline = NoResults
    /\ current = NoResults
    /\ comparisons = <<>>
    /\ report = NoReport
    /\ stderr = {}
    /\ exitCode = Running

LoadIdle ==
    /\ ldLoader = "none"
    /\ ldExists = FALSE
    /\ ldRoot = <<>>
    /\ ldTree = <<>>
    /\ ldOut = LoadStart
    /\ ldPc = "idle"

FnIdle ==
    /\ fnBase = 0
    /\ fnCur = <<>>
    /\ fnThr = 0
    /\ fnOut = [comparisons |-> <<>>, raised |-> "none"]
    /\ fnPc = "idle"

FmtIdle ==
    /\ fmtScript = "none"
    /\ fmtNs = 0
    /\ fmtFrac = 0
    /\ fmtOut = ""
    /\ fmtPc = "idle"

NoArgs == [exists |-> FALSE, tree |-> <<>>, format |-> "none"]
NoFiles == [f \in {} |-> 0]

VisIdle ==
    /\ visRuns = 0
    /\ visArgs = NoArgs
    /\ visLoaded = NoResults
    /\ visExit = Running
    /\ outExists = FALSE
    /\ outFiles = NoFiles

MainInit ==
    /\ \E i \in DOMAIN Thresholds : threshold = Thresholds[i]
    /\ baselineExists \in BOOLEAN
    /\ currentExists \in BOOLEAN
    /\ \E bn, cn \in SUBSET BenchNames :
          /\ Cardinality(bn) + Cardinality(cn) <= MaxEntries
          /\ baselineExists \/ bn = {}
          /\ currentExists \/ cn = {}
          /\ baselineTree \in TreesOver({BenchPath(n) : n \in bn}, MainContents)
          /\ currentTree \in TreesOver({BenchPath(n) : n \in cn}, MainContents)
    /\ pc = "check_dirs"
    /\ baseline = NoResults
    /\ current = NoResults
    /\ comparisons = <<>>
    /\ report = NoReport
    /\ stderr = {}
    /\ exitCode = Running

Init == MainInit /\ LoadIdle /\ FnIdle /\ FmtIdle /\ VisIdle

\* sys.exit(code), or an uncaught exception (the interpreter exits with 1).
Exit(code, msgs) ==
    /\ pc' = "exited"
    /\ exitCode' = code
    /\ stderr' = stderr \cup msgs

\* main: the two directory checks.
CheckDirs ==
    /\ pc = "check_dirs"
    /\ IF ~baselineExists THEN Exit(ErrorExitCode, {"baseline_not_found"})
       ELSE IF ~currentExists THEN Exit(ErrorExitCode, {"current_not_found"})
       ELSE pc' = "load_baseline" /\ UNCHANGED <<exitCode, stderr>>
    /\ UNCHANGED <<baselineExists, baselineTree, currentExists, currentTree, threshold,
                   baseline, current, comparisons, report, loadVars, fnVars, fmtVars, visVars>>

Warnings(r) == IF r.warnings = {} THEN {} ELSE {"Warning"}

\* main: baseline = analyzer.load_criterion_results(args.baseline)
LoadBaseline ==
    /\ pc = "load_baseline"
    /\ \E order \in Orderings(TopEntries(baselineTree)) :
          LET r == AnalyzerLoad(baselineExists, baselineTree, order)
          IN  IF r.raised # "none"
              THEN /\ Exit(UncaughtExitCode, Warnings(r) \cup {"Traceback", r.raised})
                   /\ UNCHANGED baseline
              ELSE /\ baseline' = r.results
                   /\ pc' = "load_current"
                   /\ stderr' = stderr \cup Warnings(r)
                   /\ UNCHANGED exitCode
    /\ UNCHANGED <<baselineExists, baselineTree, currentExists, currentTree, threshold,
                   current, comparisons, report, loadVars, fnVars, fmtVars, visVars>>

\* main: current = analyzer.load_criterion_results(args.current)
LoadCurrent ==
    /\ pc = "load_current"
    /\ \E order \in Orderings(TopEntries(currentTree)) :
          LET r == AnalyzerLoad(currentExists, currentTree, order)
          IN  IF r.raised # "none"
              THEN /\ Exit(UncaughtExitCode, Warnings(r) \cup {"Traceback", r.raised})
                   /\ UNCHANGED current
              ELSE /\ current' = r.results
                   /\ pc' = "compare"
                   /\ stderr' = stderr \cup Warnings(r)
                   /\ UNCHANGED exitCode
    /\ UNCHANGED <<baselineExists, baselineTree, currentExists, currentTree, threshold,
                   baseline, comparisons, report, loadVars, fnVars, fmtVars, visVars>>

\* main: not baseline and not current
NoBenchmarkDataEither(b, c) == b = NoResults \/ c = NoResults
NoBenchmarkData(b, c) == b = NoResults /\ c = NoResults

\* main: the no-results check, then analyzer.compare_results(baseline, current)
Compare ==
    /\ pc = "compare"
    /\ IF NoBenchmarkData(baseline, current)
       THEN Exit(ErrorExitCode, {"no_results"}) /\ UNCHANGED comparisons
       ELSE LET r == CompareResults(baseline, current, threshold)
            IN  IF r.raised # "none"
                THEN /\ Exit(UncaughtExitCode, {"Traceback", r.raised})
                     /\ UNCHANGED comparisons
                ELSE /\ comparisons' = r.comparisons
                     /\ pc' = "report"
                     /\ UNCHANGED <<exitCode, stderr>>
    /\ UNCHANGED <<baselineExists, baselineTree, currentExists, currentTree, threshold,
                   baseline, current, report, loadVars, fnVars, fmtVars, visVars>>

\* main: has_regressions = analyzer.print_report(comparisons), then sys.exit
Report ==
    /\ pc = "report"
    /\ report' = PrintReport(comparisons)
    /\ Exit(IF report'.returns THEN RegressionExitCode ELSE SuccessExitCode, {})
    /\ UNCHANGED <<baselineExists, baselineTree, currentExists, currentTree, threshold,
                   baseline, current, comparisons, loadVars, fnVars, fmtVars, visVars>>

Next == CheckDirs \/ LoadBaseline \/ LoadCurrent \/ Compare \/ Report

Spec == Init /\ [][Next]_vars

(***************************************************************************)
(* One call of a loader on a criterion directory.                          *)
(***************************************************************************)
\* The parts of the criterion_dir path, as given on the command line.
Roots == {<<"target", "criterion">>, <<"base", "criterion">>}

\* Places of an estimates file under criterion_dir.
LoadPaths ==
    {<<"a", BASE, ESTIMATES>>, <<"a", "new", ESTIMATES>>, <<"a", ESTIMATES>>,
     <<"b", BASE, ESTIMATES>>, <<"g", "b", BASE, ESTIMATES>>,
     <<BASE, "new", ESTIMATES>>, <<ESTIMATES>>}

LoadContents ==
    {Malformed, NonObject, Fragment(Scalar, Absent, Absent),
     Fragment(Absent, Absent, Absent)}
        \cup {Fragment(Estimate(m), Estimate(0), Estimate(m)) : m \in Means}

\* datetime.now().isoformat() of the call.
Now == "now"

LoadInit ==
    /\ ldLoader \in {"analyzer", "visualizer"}
    /\ ldExists \in BOOLEAN
    /\ ldRoot \in Roots
    /\ \E paths \in SUBSET LoadPaths :
          /\ Cardinality(paths) <= MaxFiles
          /\ ldExists \/ paths = {}
          /\ ldTree \in TreesOver(paths, LoadContents)
    /\ ldOut = LoadStart
    /\ ldPc = "call"

\* analyzer.load_criterion_results(criterion_dir)
AnalyzerLoadCall ==
    /\ ldPc = "call"
    /\ ldLoader = "analyzer"
    /\ \E order \in Orderings(TopEntries(ldTree)) :
          ldOut' = AnalyzerLoad(ldExists, ldTree, order)
    /\ ldPc' = "done"
    /\ UNCHANGED <<ldLoader, ldExists, ldRoot, ldTree, mainVars, fnVars, fmtVars, visVars>>

\* visualizer.load_criterion_results(criterion_dir)
VisualizerLoadCall ==
    /\ ldPc = "call"
    /\ ldLoader = "visualizer"
    /\ \E order \in Orderings(EstimatesFiles(ldTree)) :
          ldOut' = VisualizerLoad(ldExists, ldRoot, ldTree, order, Now)
    /\ ldPc' = "done"
    /\ UNCHANGED <<ldLoader, ldExists, ldRoot, ldTree, mainVars, fnVars, fmtVars, visVars>>

LoadNext == AnalyzerLoadCall \/ VisualizerLoadCall

InitLoad == MainIdle /\ LoadInit /\ FnIdle /\ FmtIdle /\ VisIdle

SpecLoad == InitLoad /\ [][LoadNext]_vars

(***************************************************************************)
(* One call of compare_results on two benchmarks that share a baseline     *)
(* mean.                                                                   *)
(***************************************************************************)
FnMeans == (0 - MaxMean)..MaxMean

FnInit ==
    /\ fnBase \in FnMeans
    /\ fnCur \in [1..2 -> FnMeans]
    /\ \E i \in DOMAIN Thresholds : fnThr = Thresholds[i]
    /\ fnOut = [comparisons |-> <<>>, raised |-> "none"]
    /\ fnPc = "call"

FnRecord(n, m) == [name |-> n, mean |-> m, std_dev |-> 0, median |-> m, unit |-> "ns"]

\* analyzer.compare_results(baseline, current)
CompareCall ==
    /\ fnPc = "call"
    /\ fnOut' = CompareResults(
                    [n \in {"a", "b"} |-> FnRecord(n, fnBase)],
                    [n \in {"a", "b"} |-> FnRecord(n, fnCur[IF n = "a" THEN 1 ELSE 2])],
                    fnThr)
    /\ fnPc' = "done"
    /\ UNCHANGED <<fnBase, fnCur, fnThr, mainVars, loadVars, fmtVars, visVars>>

FnNext == CompareCall

InitFn == MainIdle /\ LoadIdle /\ FnInit /\ FmtIdle /\ VisIdle

SpecFn == InitFn /\ [][FnNext]_vars

(***************************************************************************)
(* One call of format_time.                                                *)
(***************************************************************************)
FmtWindow == 6

\* Whole nanoseconds around each boundary between two units.
FmtValues ==
    UNION {(b - FmtWindow)..(b + FmtWindow) : b \in {0, 1000, 1000000, 1000000000}}

\* Thousandths of a nanosecond.
FmtFracs == {0, 4, 5, 996}

FmtInit ==
    /\ fmtScript \in {"analyzer", "visualizer"}
    /\ fmtNs \in FmtValues
    /\ fmtFrac \in FmtFracs
    /\ fmtNs < 0 => fmtFrac = 0
    /\ fmtOut = ""
    /\ fmtPc = "call"

\* analyzer.format_time(nanoseconds)
AnalyzerFormatTime ==
    /\ fmtPc = "call"
    /\ fmtScript = "analyzer"
    /\ \E up \in BOOLEAN : fmtOut' = FormatTime("analyzer", fmtNs, fmtFrac, up)
    /\ fmtPc' = "done"
    /\ UNCHANGED <<fmtScript, fmtNs, fmtFrac, mainVars, loadVars, fnVars, visVars>>

\* visualizer.format_time(nanoseconds)
VisualizerFormatTime ==
    /\ fmtPc = "call"
    /\ fmtScript = "visualizer"
    /\ \E up \in BOOLEAN : fmtOut' = FormatTime("visualizer", fmtNs, fmtFrac, up)
    /\ fmtPc' = "done"
    /\ UNCHANGED <<fmtScript, fmtNs, fmtFrac, mainVars, loadVars, fnVars, visVars>>

FmtNext == AnalyzerFormatTime \/ VisualizerFormatTime

InitFmt == MainIdle /\ LoadIdle /\ FnIdle /\ FmtInit /\ VisIdle

SpecFmt == InitFmt /\ [][FmtNext]_vars

(***************************************************************************)
(* Runs of the visualizer's main on one output directory.                  *)
(***************************************************************************)
MaxRuns == 2

Formats == {"html", "markdown", "json", "all"}

VisContents ==
    {Malformed, NonObject, Fragment(Estimate(1500), Estimate(0), Estimate(1500))}

VisArgs ==
    {[exists |-> e, tree |-> t, format |-> f] :
        e \in BOOLEAN, t \in UNION {TreesOver(ps, VisContents) : ps \in SUBSET VisPaths},
        f \in Formats}

\* python visualize-benchmarks.py --criterion-dir ... --output ... --format ...
VisualizerMain ==
    /\ visRuns < MaxRuns
    /\ \E args \in VisArgs :
          /\ args.exists \/ args.tree = <<>>
          /\ \E order \in Orderings(EstimatesFiles(args.tree)) :
                LET out == VisualizerMainRun(args, order, visRuns + 1, outExists, outFiles)
                IN  /\ visArgs' = args
                    /\ visLoaded' = out.loaded
                    /\ visExit' = out.exit
                    /\ outExists' = out.outExists
                    /\ outFiles' = out.outFiles
    /\ visRuns' = visRuns + 1
    /\ UNCHANGED <<mainVars, loadVars, fnVars, fmtVars>>

VisNext == VisualizerMain

InitVis == MainIdle /\ LoadIdle /\ FnIdle /\ FmtIdle /\ VisIdle

SpecVis == InitVis /\ [][VisNext]_vars

(***************************************************************************)
(* Properties of a run of the analyzer's main.                             *)
(***************************************************************************)
\* compare_results was called by main.
CompareCalled ==
    \/ pc = "report"
    \/ pc = "exited" /\ (report # NoReport \/ "no_results" \in stderr
                                            \/ "ZeroDivisionError" \in stderr)

\* compare_results returned its list to main.
Compared == pc = "report" \/ report # NoReport

Entries == {comparisons[i] : i \in 1..Len(comparisons)}
BothPresent(e) == e.baseline # None /\ e.current # None
Common == DOMAIN baseline \cap DOMAIN current

\* change * baseline.mean = (current.mean - baseline.mean) * 100
ChangeIsPercent(e) ==
    e.change_percent.n * e.baseline.mean
        = (e.current.mean - e.baseline.mean) * 100 * e.change_percent.d

ClassifiedAsStated(e) ==
    /\ ChangeIsPercent(e)
    /\ e.change_type = "stable"
          <=> FracLess(FracAbs(e.change_percent), FracOfInt(threshold))
    /\ e.change_type = "regression"
          <=> FracLeq(FracOfInt(threshold), e.change_percent)
    /\ e.change_type = "improvement"
          <=> FracLeq(e.change_percent, FracOfInt(0 - threshold))

\* C1, as stated: for every threshold, each benchmark of both mappings has
\* change = (current.mean - baseline.mean) / baseline.mean * 100 and is STABLE
\* iff |change| < threshold, REGRESSION iff change >= threshold, IMPROVEMENT
\* iff change <= -threshold.
C1_AnyThreshold ==
    Compared => \A e \in Entries : BothPresent(e) => ClassifiedAsStated(e)

\* C1, amended: the same for every threshold > 0, for each benchmark of both
\* mappings in the list compare_results returns; with a threshold <= 0 no
\* entry is STABLE, and an entry is REGRESSION iff change > 0 and IMPROVEMENT
\* iff change <= 0.
C1_Classification ==
    Compared =>
        /\ \A n \in Common : \E e \in Entries : e.name = n /\ BothPresent(e)
        /\ \A e \in Entries : BothPresent(e) =>
              IF threshold > 0 THEN ClassifiedAsStated(e)
              ELSE /\ ChangeIsPercent(e)
                   /\ e.change_type = IF FracLess(Zero, e.change_percent)
                                      THEN "regression" ELSE "improvement"

C1_Witness ==
    /\ Compared
    /\ threshold > 0
    /\ \E e \in Entries :
          BothPresent(e) /\ e.change_type = "stable" /\ e.change_percent # Zero

AtThreshold(e) ==
    BothPresent(e) /\ FracAbs(e.change_percent) = FracOfInt(Abs(threshold))

\* C2, as stated: a benchmark of both mappings whose change equals the
\* threshold in magnitude is STABLE.
C2_BoundaryStable ==
    Compared => \A e \in Entries : AtThreshold(e) => e.change_type = "stable"

\* C2, amended: a benchmark of both mappings whose change equals the threshold
\* in magnitude is never STABLE: it is REGRESSION when the change is positive
\* and IMPROVEMENT otherwise.
C2_BoundaryNotStable ==
    Compared =>
        \A e \in Entries : AtThreshold(e) =>
            e.change_type = IF FracLess(Zero, e.change_percent)
                            THEN "regression" ELSE "improvement"

C2_Witness ==
    /\ Compared
    /\ threshold > 0
    /\ \E e \in Entries : AtThreshold(e) /\ e.change_type = "regression"

\* C3: the returned list holds exactly one Comparison for each name of the
\* union of the two key sets, none other, in strictly ascending order of name.
C3_UnionSorted ==
    Compared =>
        /\ {e.name : e \in Entries} = DOMAIN baseline \cup DOMAIN current
        /\ Len(comparisons) = Cardinality(DOMAIN baseline \cup DOMAIN current)
        /\ \A i \in 1..Len(comparisons) - 1 :
              StrLess(comparisons[i].name, comparisons[i + 1].name)

C3_Witness ==
    /\ Compared
    /\ Len(comparisons) = 3
    /\ DOMAIN baseline \ DOMAIN current # {}
    /\ DOMAIN current \ DOMAIN baseline # {}

\* C4: a Comparison is NEW iff its name is only in current (baseline absent,
\* current present), MISSING iff its name is only in baseline (current absent,
\* baseline present); NEW and MISSING have change_percent 0; every other
\* Comparison has both fields; none has both absent.
C4_NewMissing ==
    Compared =>
        \A e \in Entries :
            /\ e.change_type = "new"
                  <=> (e.name \in DOMAIN current /\ e.name \notin DOMAIN baseline)
            /\ e.change_type = "new"
                  <=> (e.baseline = None /\ e.current # None)
            /\ e.change_type = "missing"
                  <=> (e.name \in DOMAIN baseline /\ e.name \notin DOMAIN current)
            /\ e.change_type = "missing"
                  <=> (e.current = None /\ e.baseline # None)
            /\ e.change_type \in {"new", "missing"} => e.change_percent = Zero
            /\ e.change_type \notin {"new", "missing"} => BothPresent(e)
            /\ e.baseline # None \/ e.current # None
            /\ e.baseline # None => e.baseline = baseline[e.name]
            /\ e.current # None => e.current = current[e.name]

C4_Witness ==
    /\ Compared
    /\ \E e \in Entries : e.change_type = "new"
    /\ \E e \in Entries : e.change_type = "missing"

\* C5: for every pair of baseline and current records of one name with the
\* same mean, whatever mean the loader produced and whatever the threshold,
\* compare_results yields change_percent 0 and STABLE.
C5_IdenticalMeans ==
    CompareCalled =>
        \A n \in Common :
            baseline[n].mean = current[n].mean =>
                /\ Compared
                /\ \E e \in Entries :
                      /\ e.name = n
                      /\ e.change_percent = Zero
                      /\ e.change_type = "stable"

HasRegression == \E e \in Entries : e.change_type = "regression"

\* C7: when both directories exist and a side loaded a benchmark, the process
\* exits with 1 iff a Comparison is REGRESSION and with 0 otherwise, and
\* print_report returns True iff the list holds a REGRESSION.
C7_ExitOnRegression ==
    (/\ pc = "exited"
     /\ CompareCalled
     /\ baselineExists /\ currentExists
     /\ baseline # NoResults \/ current # NoResults) =>
        /\ exitCode = 1 <=> HasRegression
        /\ ~HasRegression => exitCode = 0
        /\ report # NoReport /\ (report.returns <=> HasRegression)

ErrorOutcome ==
    stderr \cap {"baseline_not_found", "current_not_found", "no_results"} # {}

\* C8, as stated: the exit code of a run with regressions is nonzero and is
\* not the exit code of an error outcome.
C8_DistinctCode ==
    /\ RegressionExitCode # 0
    /\ (pc = "exited" /\ ErrorOutcome) => exitCode # RegressionExitCode

\* C8, amended: the exit code of a run with regressions is nonzero and is the
\* exit code of the error outcomes, 1; only a run that printed a report
\* without regressions exits with 0.
C8_SharedCode ==
    pc = "exited" =>
        /\ (report # NoReport /\ report.returns) => exitCode = 1
        /\ ErrorOutcome => exitCode = 1
        /\ exitCode = 0 <=> (report # NoReport /\ ~report.returns)

C8_Witness == pc = "exited" /\ report # NoReport /\ report.returns

\* C9: with both directories present, when both loaded mappings are empty the
\* run ends with the no-results error and a nonzero exit code and no report;
\* when exactly one is empty the run is not a no-results run and goes on to
\* the comparison, whose entries are all NEW or all MISSING.
C9_NoResults ==
    CompareCalled =>
        /\ (baseline = NoResults /\ current = NoResults) =>
              /\ pc = "exited"
              /\ "no_results" \in stderr
              /\ exitCode \notin {0, Running}
              /\ report = NoReport
              /\ comparisons = <<>>
        /\ (baseline = NoResults) # (current = NoResults) =>
              /\ "no_results" \notin stderr
              /\ Compared
              /\ Len(comparisons) = Cardinality(DOMAIN baseline \cup DOMAIN current)
              /\ \A e \in Entries :
                    e.change_type = IF baseline = NoResults THEN "new" ELSE "missing"

C9_Witness ==
    /\ pc = "exited"
    /\ "no_results" \in stderr
    /\ baselineExists /\ currentExists
    /\ DOMAIN baselineTree # {}

(***************************************************************************)
(* Properties of one call of compare_results.                              *)
(***************************************************************************)
FnReturned == fnPc = "done" /\ fnOut.raised = "none"
FnChange(i) == fnOut.comparisons[i].change_percent

\* C6, as stated: for a fixed baseline.mean and current means c1 <= c2, the
\* change_percent computed for c2 is never smaller than the one for c1.
C6_Monotone ==
    (FnReturned /\ fnCur[1] <= fnCur[2]) => FracLeq(FnChange(1), FnChange(2))

\* C6, amended: that holds for a fixed baseline.mean > 0; for a fixed
\* baseline.mean < 0 the change_percent computed for c2 is never larger than
\* the one for c1.
C6_MonotonePositiveBase ==
    (FnReturned /\ fnCur[1] <= fnCur[2]) =>
        /\ fnBase > 0 => FracLeq(FnChange(1), FnChange(2))
        /\ fnBase < 0 => FracLeq(FnChange(2), FnChange(1))

C6_Witness ==
    /\ FnReturned
    /\ fnBase > 0
    /\ fnCur[1] < fnCur[2]
    /\ FracLess(FnChange(1), FnChange(2))

(***************************************************************************)
(* Properties of one call of a loader.                                     *)
(***************************************************************************)
\* A fragment that is not parseable JSON text of the expected structure.
BadFragment(c) ==
    IF c.kind # "object" THEN TRUE
    ELSE Scalar \in {c.mean, c.std_dev, c.median}

\* The files the loader opens.
FilesRead ==
    IF ldLoader = "analyzer"
    THEN {EstimatesFile(ldTree, d) : d \in {e \in TopEntries(ldTree) : IsDir(ldTree, e)}}
             \cap DOMAIN ldTree
    ELSE EstimatesFiles(ldTree)

\* The benchmark a file that is read stands for; "" when it stands for none.
NameOf(f) ==
    IF ldLoader = "analyzer" THEN f[1]
    ELSE IF NameParts(f) # <<>> /\ BASE \in Segments(ldRoot \o f)
    THEN Join(NameParts(f)) ELSE ""

\* C10: neither loader aborts on a bad fragment: each malformed or
\* ill-structured estimates file is skipped with a warning, and every
\* well-formed benchmark under the root is in the returned mapping.
C10_NeverAborts ==
    ldPc = "done" =>
        /\ ldOut.raised = "none"
        /\ \A f \in FilesRead :
              IF BadFragment(ldTree[f]) THEN f \in ldOut.warnings
              ELSE NameOf(f) # "" => NameOf(f) \in DOMAIN ldOut.results

C10_WitnessSkipped ==
    /\ ldPc = "done"
    /\ ldOut.raised = "none"
    /\ ldOut.warnings # {}
    /\ ldOut.results # NoResults

(***************************************************************************)
(* The recursive loader and the canonical marker.                          *)
(***************************************************************************)
VisualizerLoaded ==
    ldPc = "done" /\ ldLoader = "visualizer" /\ ldOut.raised = "none"

\* The segment that holds an estimates file: estimates_file.parent.name
Marker(f) == IF Len(f) >= 2 THEN f[Len(f) - 1] ELSE ""

\* The estimates files of the tree that derive the benchmark name `name`.
Deriving(name) ==
    {f \in EstimatesFiles(ldTree) : NameParts(f) # <<>> /\ Join(NameParts(f)) = name}

\* C11: whatever the root path and the traversal order, the record the
\* recursive loader stores under a name was read from an estimates file
\* whose parent segment is "base"; a file under another marker that derives
\* the same name is never the one retained.
C11_OnlyBaseMarker ==
    VisualizerLoaded =>
        \A name \in DOMAIN ldOut.results :
            \E f \in Deriving(name) :
                /\ Marker(f) = BASE
                /\ ldOut.results[name] =
                       BenchmarkData(name, Now, ParseFragment(ldTree[f]))

\* A load that stored a record although a file under another marker derives
\* the same name.
C11_WitnessAlternate ==
    /\ VisualizerLoaded
    /\ \E name \in DOMAIN ldOut.results :
          /\ \E f \in Deriving(name) : Marker(f) = BASE
          /\ \E f \in Deriving(name) : Marker(f) # BASE

(***************************************************************************)
(* The loader-then-comparator pipeline of the analyzer.                    *)
(***************************************************************************)
\* The mapping is the one load_criterion_results returned for the tree.
AsLoaded(results, exists, tree) ==
    \E order \in Orderings(TopEntries(tree)) :
        results = AnalyzerLoad(exists, tree, order).results

\* C14: for every pair of mappings the loader returned, records whose mean
\* was defaulted to 0 included, compare_results returns a list with one
\* Comparison per name, raises nothing, and leaves both mappings and their
\* records as the loader returned them.
C14_PipelineTotal ==
    (CompareCalled /\ ~NoBenchmarkData(baseline, current)) =>
        /\ Compared
        /\ "Traceback" \notin stderr
        /\ Len(comparisons) = Cardinality(DOMAIN baseline \cup DOMAIN current)
        /\ AsLoaded(baseline, baselineExists, baselineTree)
        /\ AsLoaded(current, currentExists, currentTree)

\* compare_results returned although a record of a common name holds the
\* defaulted mean 0 (on the current side).
C14_WitnessDefaulted ==
    /\ Compared
    /\ \E n \in Common : current[n].mean = 0 /\ baseline[n].mean # 0

(***************************************************************************)
(* The rendering of a time.                                                *)
(***************************************************************************)
StatedScale ==
    IF fmtNs < 1000 THEN 1
    ELSE IF fmtNs < 1000000 THEN 1000
    ELSE IF fmtNs < 1000000000 THEN 1000000
    ELSE 1000000000

StatedUnit ==
    IF fmtNs < 1000 THEN "ns"
    ELSE IF fmtNs < 1000000 THEN "µs"
    ELSE IF fmtNs < 1000000000 THEN "ms"
    ELSE "s"

\* h/100 is within half a hundredth of (fmtNs + fmtFrac/1000) / StatedScale
TwoDecimals(h) ==
    IF StatedScale = 1
    THEN Abs(10 * (h - 100 * fmtNs) - fmtFrac) <= 5
    ELSE LET d == StatedScale \div 100
         IN  /\ h * d - fmtNs <= d \div 2
             /\ fmtNs - h * d <= (IF fmtFrac = 0 THEN d \div 2 ELSE d \div 2 - 1)

\* The hundredths next to the scaled value.
Nearby ==
    LET q == IF StatedScale = 1 THEN 100 * fmtNs + fmtFrac \div 10
             ELSE fmtNs \div (StatedScale \div 100)
    IN  (q - 1)..(q + 1)

\* C13: in both scripts format_time writes the value scaled to the unit its
\* magnitude selects (ns below 1000, µs below 1_000_000, ms below
\* 1_000_000_000, s otherwise) with two decimals and that unit, rounding
\* never changing the unit; 999 gives "999.00 ns", 1000 "1.00 µs", 999999
\* "1000.00 µs", 1_000_000 "1.00 ms" and 1_000_000_000 "1.00 s".
C13_FormatTime ==
    fmtPc = "done" =>
        /\ \E h \in Nearby :
              TwoDecimals(h) /\ fmtOut = Fixed2(h) \o " " \o StatedUnit
        /\ fmtFrac = 0 =>
              /\ fmtNs = 999 => fmtOut = "999.00 ns"
              /\ fmtNs = 1000 => fmtOut = "1.00 µs"
              /\ fmtNs = 999999 => fmtOut = "1000.00 µs"
              /\ fmtNs = 1000000 => fmtOut = "1.00 ms"
              /\ fmtNs = 1000000000 => fmtOut = "1.00 s"

\* The visualizer's format_time at the last value before the ms unit.
C13_WitnessBoundary ==
    /\ fmtPc = "done"
    /\ fmtScript = "visualizer"
    /\ fmtNs = 999999
    /\ fmtFrac = 0
    /\ fmtOut = "1000.00 µs"

(***************************************************************************)
(* The visualizer's output directory over a sequence of runs.              *)
(***************************************************************************)
\* json.loads(text)
JsonLoads(text) == text.json

\* A step that is one run of main.
OneRun == visRuns' = visRuns + 1

\* The latest run loaded at least one benchmark.
LoadedSome == visLoaded # NoResults

\* The latest run is one that saves JSON.
SavesJson == LoadedSome /\ visArgs.format \in {"json", "all"}

\* `data` is the snapshot of the latest run: its time and its benchmarks.
SnapshotOfRun(data) ==
    /\ data.timestamp = visRuns
    /\ DOMAIN data.benchmarks = DOMAIN visLoaded
    /\ \A n \in DOMAIN visLoaded :
          /\ data.benchmarks[n].mean = visLoaded[n].mean
          /\ data.benchmarks[n].median = visLoaded[n].median
          /\ data.benchmarks[n].std_dev = visLoaded[n].std_dev

\* latest.json holds the snapshot of the latest run.
LatestIsOfRun ==
    /\ LATEST_JSON \in DOMAIN outFiles
    /\ SnapshotOfRun(JsonLoads(outFiles[LATEST_JSON].content))

\* latest.json holds one snapshot, the one of the last line of history.jsonl.
LatestIsLast ==
    /\ LATEST_JSON \in DOMAIN outFiles <=> HISTORY_JSONL \in DOMAIN outFiles
    /\ LATEST_JSON \in DOMAIN outFiles =>
          /\ HistoryLines(outFiles) # <<>>
          /\ JsonLoads(outFiles[LATEST_JSON].content) =
                 JsonLoads(HistoryLines(outFiles)[Len(HistoryLines(outFiles))])

\* The lines of history.jsonl stand in the order of their runs.
InRunOrder ==
    \A i, j \in 1..Len(HistoryLines(outFiles)) :
        i < j => JsonLoads(HistoryLines(outFiles)[i]).timestamp
                     < JsonLoads(HistoryLines(outFiles)[j]).timestamp

\* C12: every run that saves JSON adds exactly one line, its own snapshot, at
\* the end of history.jsonl and leaves the earlier lines as they were, so the
\* lines stand in run order, one per saving run; after every run latest.json
\* holds one snapshot, that of the most recent saving run, and it is the
\* snapshot of the last history line.
C12_HistoryAppends ==
    [][OneRun =>
          /\ SavesJson' =>
                /\ HistoryLines(outFiles') =
                       Append(HistoryLines(outFiles),
                              HistoryLines(outFiles')[Len(HistoryLines(outFiles'))])
                /\ LatestIsOfRun'
          /\ ~SavesJson' => HistoryLines(outFiles') = HistoryLines(outFiles)
          /\ LatestIsLast'
          /\ InRunOrder']_vars

\* Two runs saved JSON, with different benchmarks.
C12_WitnessTwoRuns ==
    /\ visRuns = 2
    /\ Len(HistoryLines(outFiles)) = 2
    /\ DOMAIN JsonLoads(HistoryLines(outFiles)[1]).benchmarks
           # DOMAIN JsonLoads(HistoryLines(outFiles)[2]).benchmarks
    /\ JsonLoads(outFiles[LATEST_JSON].content).timestamp = 2

Artifacts == {INDEX_HTML, REPORT_MD, LATEST_JSON, HISTORY_JSONL}

\* The artifacts of a --format value.
StatedArtifacts(format) ==
    CASE format = "html" -> {INDEX_HTML}
      [] format = "markdown" -> {REPORT_MD}
      [] format = "json" -> {LATEST_JSON, HISTORY_JSONL}
      [] format = "all" -> Artifacts

\* The step creates or modifies the artifact.
Touched(a) ==
    /\ a \in DOMAIN outFiles'
    /\ a \in DOMAIN outFiles => outFiles'[a] # outFiles[a]

\* The step leaves the artifact as it was: absent, or there with the same
\* modification time and content.
Kept(a) ==
    /\ a \in DOMAIN outFiles' <=> a \in DOMAIN outFiles
    /\ a \in DOMAIN outFiles => outFiles'[a] = outFiles[a]

\* C15: a run of main creates or modifies an artifact iff it loaded at least
\* one benchmark and --format selects the artifact; a run that fails (missing
\* criterion directory, no results found) writes none and leaves
\* history.jsonl as it was, and a run with one format leaves the artifacts
\* of the other formats as they were.
C15_ArtifactsBySelection ==
    [][OneRun =>
          /\ DOMAIN outFiles' \subseteq Artifacts
          /\ \A a \in Artifacts :
                IF LoadedSome' /\ a \in StatedArtifacts(visArgs'.format)
                THEN Touched(a) ELSE Kept(a)
          /\ (~visArgs'.exists \/ ~LoadedSome') =>
                visExit' # 0 /\ outFiles' = outFiles]_vars

\* A run with --format html after a run with --format all.
C15_WitnessSingleFormat ==
    /\ visRuns = 2
    /\ visArgs.format = "html"
    /\ LoadedSome
    /\ DOMAIN outFiles = Artifacts
    /\ outFiles[INDEX_HTML].mtime = 2
    /\ outFiles[REPORT_MD].mtime = 1
    /\ outFiles[LATEST_JSON].mtime = 1
    /\ Len(HistoryLines(outFiles)) = 1

====
